---- MODULE Spec2Model ----
(***************************************************************************)
(* POST /predict/video/frames of backend/app.py (predict_video_frames):    *)
(* the frame-sampling and detection-aggregation pipeline, one handler      *)
(* coroutine per request on the server's single event loop.                *)
(***************************************************************************)
EXTENDS Integers, Sequences, FiniteSets, TLC

\* ------------------------------------------------------------- bounds
NumRequests == 2        \* requests that can be in flight at once
MaxFrames   == 3        \* decodable / reported frames of an upload: 0..MaxFrames
MaxFps      == 6        \* largest reported frame rate, frames per second

Requests == 1..NumRequests

VARIABLES
    upload,          \* per request: the uploaded container (what cv2 will report)
    pc,              \* per request: position of the handler coroutine
    running,         \* the request whose coroutine holds the event loop, 0 if none
    tmp_exists,      \* per request: tmp_file_path exists on disk
    fps,             \* per request: local fps
    total_frames,    \* per request: local total_frames
    duration,        \* per request: local duration (a quotient, kept exact)
    frame_interval,  \* per request: local frame_interval
    frame_data,      \* per request: local frame_data (list of records)
    frame_count,     \* per request: local frame_count (= frames read from cap)
    results,         \* per request: local results (last Detector return value)
    response         \* per request: what the client receives

vars == <<upload, pc, running, tmp_exists, fps, total_frames, duration,
          frame_interval, frame_data, frame_count, results, response>>

\* ------------------------------------------------------------- values
Max(a, b) == IF a >= b THEN a ELSE b

\* A float quotient a / b of two ints, kept exact as numerator and denominator.
Quot(a, b) == [num |-> a, den |-> b]

\* q1 < q2 for quotients with nonzero denominators of either sign.
QuotLess(q1, q2) ==
    q1.num * q1.den * q2.den * q2.den < q2.num * q2.den * q1.den * q1.den

\* cv2 reports CAP_PROP_FPS as a double; the model keeps it in half frames
\* per second (3 is 1.5 fps).  int() truncates toward zero.
IntOfHalves(h) == IF h >= 0 THEN h \div 2 ELSE -((-h) \div 2)

\* Reported frame rates: -1.5 .. MaxFps + 0.5 in steps of one half.
ReportedRates == (-3)..(2 * MaxFps + 1)

\* An uploaded container: the rate and frame count its header reports, and
\* the number of frames cap.read() can actually decode.  A container that
\* cannot be opened reports 0 for both and decodes nothing.
Uploads ==
    [rate : ReportedRates, count : 0..MaxFrames, frames : 0..MaxFrames]

\* Two concrete uploads for the specification with several requests in flight.
SmallUploads ==
    { [rate |-> 2, count |-> 2, frames |-> 2],
      [rate |-> 0, count |-> 0, frames |-> 0] }

\* What model.predict returns in results[0].boxes: None, or a list of boxes
\* (each box reduced to its class id).  Four returns stand for all: no box
\* list, an empty one, one box, two boxes of different classes.
NoBoxes == <<-1>>
DetectorReturns == { NoBoxes, <<>>, <<0>>, <<1, 0>> }

\* model.names[cls]
ClassName(cls) == IF cls = 0 THEN "damage" ELSE "dirt"

\* Lines 170-183: the detections list built from results[0].boxes.
Detections(boxes) ==
    IF boxes = NoBoxes
    THEN <<>>
    ELSE [k \in 1..Len(boxes) |-> [class |-> ClassName(boxes[k]), class_id |-> boxes[k]]]

\* Faulty variant: the interval is the frame rate itself (one frame a second).
FrameInterval_NoHalving(f) == Max(1, f)

\* Line 153.
FrameInterval(f) == Max(1, f \div 2)

\* Line 162.
Sampled(i, interval) == i % interval = 0

NoResponse == [status |-> 0]
ErrorResponse(msg) == [status |-> 500, detail |-> msg]

\* ------------------------------------------------------------- initial states
InitLocals ==
    /\ running = 0
    /\ tmp_exists = [r \in Requests |-> FALSE]
    /\ fps = [r \in Requests |-> 0]
    /\ total_frames = [r \in Requests |-> 0]
    /\ duration = [r \in Requests |-> Quot(0, 1)]
    /\ frame_interval = [r \in Requests |-> 1]
    /\ frame_data = [r \in Requests |-> <<>>]
    /\ frame_count = [r \in Requests |-> 0]
    /\ results = [r \in Requests |-> NoBoxes]
    /\ response = [r \in Requests |-> NoResponse]

\* One request in flight, any upload.
Init ==
    /\ \E u \in Uploads :
          upload = [r \in Requests |->
                      IF r = 1 THEN u ELSE [rate |-> 0, count |-> 0, frames |-> 0]]
    /\ pc = [r \in Requests |-> IF r = 1 THEN "start" ELSE "absent"]
    /\ InitLocals

\* Every request in flight, each with one of the small uploads.
InitConcurrent ==
    /\ upload \in [Requests -> SmallUploads]
    /\ pc = [r \in Requests |-> "start"]
    /\ InitLocals

\* ------------------------------------------------------------- the handler
\* An exception anywhere in the try block: lines 211-212.  The locals are
\* dropped, the client gets HTTP 500, nothing is cleaned up.
Raise(r, msg) ==
    /\ pc' = [pc EXCEPT ![r] = "errored"]
    /\ response' = [response EXCEPT ![r] = ErrorResponse(msg)]
    /\ running' = 0

\* Lines 134-142: the coroutine starts, creates the temporary file and
\* suspends at `await file.read()`.
Start(r) ==
    /\ running = 0
    /\ pc[r] = "start"
    /\ tmp_exists' = [tmp_exists EXCEPT ![r] = TRUE]
    /\ pc' = [pc EXCEPT ![r] = "await_read"]
    /\ UNCHANGED <<upload, running, fps, total_frames, duration, frame_interval,
                   frame_data, frame_count, results, response>>

\* Faulty variant: the handler body runs on a worker thread (a plain `def`
\* endpoint), so it starts whether or not another request is running.
Resume_Threaded(r) ==
    /\ pc[r] = "await_read"
    /\ pc' = [pc EXCEPT ![r] = "open"]
    /\ running' = r
    /\ UNCHANGED <<upload, tmp_exists, fps, total_frames, duration, frame_interval,
                   frame_data, frame_count, results, response>>

\* Lines 142-144: the event loop resumes the coroutine with the upload's
\* bytes; they are written and the file is closed (delete=False).
Resume(r) ==
    /\ running = 0
    /\ pc[r] = "await_read"
    /\ pc' = [pc EXCEPT ![r] = "open"]
    /\ running' = r
    /\ UNCHANGED <<upload, tmp_exists, fps, total_frames, duration, frame_interval,
                   frame_data, frame_count, results, response>>

\* Lines 147-155.
Open(r) ==
    /\ running = r
    /\ pc[r] = "open"
    /\ LET f == IntOfHalves(upload[r].rate)
           t == upload[r].count
       IN  /\ fps' = [fps EXCEPT ![r] = f]
           /\ total_frames' = [total_frames EXCEPT ![r] = t]
           /\ IF f = 0
              THEN /\ Raise(r, "division by zero")
                   /\ UNCHANGED <<duration, frame_interval, frame_data, frame_count>>
              ELSE /\ duration' = [duration EXCEPT ![r] = Quot(t, f)]
                   /\ frame_interval' = [frame_interval EXCEPT ![r] = FrameInterval(f)]
                   /\ frame_data' = [frame_data EXCEPT ![r] = <<>>]
                   /\ frame_count' = [frame_count EXCEPT ![r] = 0]
                   /\ pc' = [pc EXCEPT ![r] = "read"]
                   /\ UNCHANGED <<running, response>>
    /\ UNCHANGED <<upload, tmp_exists, results>>

\* Faulty variant: `continue` instead of `break` when the source is exhausted.
ReadFrame_Continue(r) ==
    /\ running = r
    /\ pc[r] = "read"
    /\ IF ~(frame_count[r] < upload[r].frames)
       THEN UNCHANGED <<pc, frame_count>>
       ELSE IF Sampled(frame_count[r], frame_interval[r])
            THEN /\ pc' = [pc EXCEPT ![r] = "predict"]
                 /\ UNCHANGED frame_count
            ELSE /\ frame_count' = [frame_count EXCEPT ![r] = @ + 1]
                 /\ UNCHANGED pc
    /\ UNCHANGED <<upload, running, tmp_exists, fps, total_frames, duration,
                   frame_interval, frame_data, results, response>>

\* Lines 158-162 and, for a frame that is not sampled, line 196.
ReadFrame(r) ==
    /\ running = r
    /\ pc[r] = "read"
    /\ IF ~(frame_count[r] < upload[r].frames)
       THEN /\ pc' = [pc EXCEPT ![r] = "finish"]
            /\ UNCHANGED frame_count
       ELSE IF Sampled(frame_count[r], frame_interval[r])
            THEN /\ pc' = [pc EXCEPT ![r] = "predict"]
                 /\ UNCHANGED frame_count
            ELSE /\ frame_count' = [frame_count EXCEPT ![r] = @ + 1]
                 /\ UNCHANGED pc
    /\ UNCHANGED <<upload, running, tmp_exists, fps, total_frames, duration,
                   frame_interval, frame_data, results, response>>

\* Lines 164-167: the Detector call returns a result or raises.
Predict(r) ==
    /\ running = r
    /\ pc[r] = "predict"
    /\ \/ /\ \E out \in DetectorReturns : results' = [results EXCEPT ![r] = out]
          /\ pc' = [pc EXCEPT ![r] = "record"]
          /\ UNCHANGED <<running, response>>
       \/ /\ Raise(r, "detector failed")
          /\ UNCHANGED results
    /\ UNCHANGED <<upload, tmp_exists, fps, total_frames, duration, frame_interval,
                   frame_data, frame_count>>

\* The record of lines 189-194 (frame_image left out: an opaque blob).
FrameRecord(r) ==
    [ frame_number |-> frame_count[r],
      timestamp    |-> Quot(frame_count[r], fps[r]),
      detections   |-> Detections(results[r]) ]

\* Faulty variant: a frame without detections gets no record.
Record_SkipEmpty(r) ==
    /\ running = r
    /\ pc[r] = "record"
    /\ \/ /\ frame_data' = [frame_data EXCEPT ![r] =
                IF Detections(results[r]) = <<>> THEN @ ELSE Append(@, FrameRecord(r))]
          /\ frame_count' = [frame_count EXCEPT ![r] = @ + 1]
          /\ pc' = [pc EXCEPT ![r] = "read"]
          /\ UNCHANGED <<running, response>>
       \/ /\ Raise(r, "encode failed")
          /\ UNCHANGED <<frame_data, frame_count>>
    /\ UNCHANGED <<upload, tmp_exists, fps, total_frames, duration, frame_interval,
                   results>>

\* Faulty variant: the record is inserted at the front of the list.
Record_Prepend(r) ==
    /\ running = r
    /\ pc[r] = "record"
    /\ \/ /\ frame_data' = [frame_data EXCEPT ![r] = <<FrameRecord(r)>> \o @]
          /\ frame_count' = [frame_count EXCEPT ![r] = @ + 1]
          /\ pc' = [pc EXCEPT ![r] = "read"]
          /\ UNCHANGED <<running, response>>
       \/ /\ Raise(r, "encode failed")
          /\ UNCHANGED <<frame_data, frame_count>>
    /\ UNCHANGED <<upload, tmp_exists, fps, total_frames, duration, frame_interval,
                   results>>

\* Lines 170-196: build the detections, encode the frame (which may raise),
\* append the record, count the frame.
Record(r) ==
    /\ running = r
    /\ pc[r] = "record"
    /\ \/ /\ frame_data' = [frame_data EXCEPT ![r] = Append(@, FrameRecord(r))]
          /\ frame_count' = [frame_count EXCEPT ![r] = @ + 1]
          /\ pc' = [pc EXCEPT ![r] = "read"]
          /\ UNCHANGED <<running, response>>
       \/ /\ Raise(r, "encode failed")
          /\ UNCHANGED <<frame_data, frame_count>>
    /\ UNCHANGED <<upload, tmp_exists, fps, total_frames, duration, frame_interval,
                   results>>

\* Lines 198-209: release, unlink (which may raise), return the response.
Finish(r) ==
    /\ running = r
    /\ pc[r] = "finish"
    /\ \/ /\ tmp_exists' = [tmp_exists EXCEPT ![r] = FALSE]
          /\ response' = [response EXCEPT ![r] =
                [ status         |-> 200,
                  fps            |-> fps[r],
                  total_frames   |-> total_frames[r],
                  duration       |-> duration[r],
                  frame_interval |-> frame_interval[r],
                  frames         |-> frame_data[r],
                  processed      |-> Len(frame_data[r]) ]]
          /\ pc' = [pc EXCEPT ![r] = "done"]
          /\ running' = 0
       \/ /\ Raise(r, "unlink failed")
          /\ UNCHANGED tmp_exists
    /\ UNCHANGED <<upload, fps, total_frames, duration, frame_interval, frame_data,
                   frame_count, results>>

Next ==
    \E r \in Requests :
        \/ Start(r)
        \/ Resume(r)
        \/ Open(r)
        \/ ReadFrame(r)
        \/ Predict(r)
        \/ Record(r)
        \/ Finish(r)

Spec == Init /\ [][Next]_vars

\* The event loop always runs a coroutine that is ready to run.
LiveSpec == Init /\ [][Next]_vars /\ WF_vars(Next)

ConcurrentSpec == InitConcurrent /\ [][Next]_vars

\* ------------------------------------------------------------- properties
Terminal(r) == pc[r] \in {"done", "errored"}

Succeeded(r) == response[r].status = 200

FrameNumbers(frames) == { frames[k].frame_number : k \in 1..Len(frames) }

StrictlyIncreasing(frames) ==
    \A j, k \in 1..Len(frames) :
        j < k => frames[j].frame_number < frames[k].frame_number

\* C1: once a request that created its temporary file has ended, on any exit
\* path, the file no longer exists.
C1_TempFileDeletedOnEveryExit ==
    \A r \in Requests : Terminal(r) => ~tmp_exists[r]

\* C2: an upload whose reported frame rate is zero or negative never ends in a
\* success response.
C2_NonPositiveRateFails ==
    \A r \in Requests :
        (upload[r].rate <= 0 /\ Terminal(r)) => response[r].status = 500

C4_FramesStrictlyIncreasing ==
    /\ [](\A r \in Requests :
            /\ StrictlyIncreasing(frame_data[r])
            /\ Succeeded(r) => StrictlyIncreasing(response[r].frames))
    /\ [][\A r \in Requests :
            \/ frame_data'[r] = frame_data[r]
            \/ /\ Len(frame_data'[r]) = Len(frame_data[r]) + 1
               /\ SubSeq(frame_data'[r], 1, Len(frame_data[r])) = frame_data[r]
               /\ \A k \in 1..Len(frame_data[r]) :
                    frame_data[r][k].frame_number
                        < frame_data'[r][Len(frame_data'[r])].frame_number]_vars

C4_Witness ==
    /\ pc[1] = "done"
    /\ Len(response[1].frames) = 3
    /\ response[1].frames[3].frame_number = 2

\* C5: every emitted frame_number lies in [0, total_frames), total_frames
\* being the count the response reports.  Stated for the runs with a frame
\* rate of at least 1, so that a violation owes nothing to a bad rate.
C5_FrameNumbersWithinReportedCount ==
    \A r \in Requests :
        (Succeeded(r) /\ response[r].fps >= 1) =>
            \A k \in 1..Len(response[r].frames) :
                /\ 0 <= response[r].frames[k].frame_number
                /\ response[r].frames[k].frame_number < response[r].total_frames

\* C6: a Detector failure at one sampled frame does not fail the request as
\* a whole (the request goes on and keeps the records it has built).  Stated
\* for the runs with a frame rate of at least 1 that have built a record.
C6_DetectorFailureIsolated ==
    \A r \in Requests :
        (fps[r] >= 1 /\ Len(frame_data[r]) >= 1) =>
            ~(response[r].status = 500 /\ response[r].detail = "detector failed")

\* C7: every emitted record has timestamp = frame_number / fps with the fps
\* of the response; the record of frame 0 has timestamp 0; timestamps are
\* strictly increasing along frames.
C7_Timestamps ==
    \A r \in Requests :
        Succeeded(r) =>
            LET fr == response[r].frames
            IN  /\ \A k \in 1..Len(fr) :
                    /\ fr[k].timestamp = Quot(fr[k].frame_number, response[r].fps)
                    /\ fr[k].frame_number = 0 => fr[k].timestamp.num = 0
                /\ \A k \in 1..(Len(fr) - 1) :
                    QuotLess(fr[k].timestamp, fr[k + 1].timestamp)

\* C8: every sampled frame yields exactly one record whatever the Detector
\* returned for it, and that record's detections list is empty when the
\* Detector returned no box list or an empty one.
C8_OneRecordPerSampledFrame ==
    /\ [](\A r \in Requests :
            pc[r] \in {"read", "predict", "record", "finish", "done"} =>
                Len(frame_data[r]) =
                    Cardinality({ i \in 0..(frame_count[r] - 1) :
                                    i % frame_interval[r] = 0 }))
    /\ [][\A r \in Requests :
            (pc[r] = "record" /\ pc'[r] = "read") =>
                /\ Len(frame_data'[r]) = Len(frame_data[r]) + 1
                /\ frame_data'[r][Len(frame_data'[r])].frame_number = frame_count[r]
                /\ (results[r] = NoBoxes \/ results[r] = <<>>) =>
                      frame_data'[r][Len(frame_data'[r])].detections = <<>>]_vars

C8_Witness ==
    /\ pc[1] = "done"
    /\ Len(response[1].frames) = 2
    /\ response[1].frames[1].detections = <<>>
    /\ response[1].frames[2].detections # <<>>

\* C9: the phases of a request.
Phase(p) ==
    CASE p \in {"absent", "start", "await_read", "open"} -> "OPENING"
      [] p \in {"read", "predict", "record"}             -> "PROCESSING"
      [] p = "finish"                                    -> "AGGREGATING"
      [] p = "done"                                      -> "DONE"
      [] p = "errored"                                   -> "ERRORED"

PhaseStep(a, b) ==
    \/ a = b /\ a \notin {"DONE", "ERRORED"}
    \/ a = "OPENING" /\ b = "PROCESSING"
    \/ a = "PROCESSING" /\ b = "AGGREGATING"
    \/ a = "AGGREGATING" /\ b = "DONE"
    \/ a \in {"OPENING", "PROCESSING", "AGGREGATING"} /\ b = "ERRORED"

LocalsOf(r) ==
    <<pc[r], tmp_exists[r], fps[r], total_frames[r], duration[r], frame_interval[r],
      frame_data[r], frame_count[r], results[r], response[r]>>

\* C9: every request in flight eventually ends DONE (a success response with
\* all the records) or ERRORED (HTTP 500, a detail, no records); phases are
\* traversed only in the order OPENING, PROCESSING, AGGREGATING, DONE, or to
\* ERRORED from a non-terminal phase; nothing changes after a terminal phase.
C9_PhasesAndTermination ==
    /\ \A r \in Requests : (pc[r] # "absent") ~> Terminal(r)
    /\ [][\A r \in Requests :
            /\ LocalsOf(r)' # LocalsOf(r) => PhaseStep(Phase(pc[r]), Phase(pc'[r]))
            /\ Terminal(r) => LocalsOf(r)' = LocalsOf(r)]_vars
    /\ [](\A r \in Requests :
            /\ pc[r] = "done" =>
                  /\ response[r].status = 200
                  /\ response[r].frames = frame_data[r]
            /\ pc[r] = "errored" =>
                  /\ response[r].status = 500
                  /\ DOMAIN response[r] = {"status", "detail"}
            /\ ~Terminal(r) => response[r] = NoResponse)

\* ERRORED reached from AGGREGATING, the last non-terminal phase.
C9_Witness ==
    /\ pc[1] = "errored"
    /\ response[1].detail = "unlink failed"
    /\ Len(frame_data[1]) = 2

C9_ErroredFromOpening ==
    pc[1] = "errored" /\ response[1].detail = "division by zero"

C9_ErroredFromProcessing ==
    pc[1] = "errored" /\ response[1].detail \in {"detector failed", "encode failed"}

\* C10: with several requests in flight, at most one of them is between the
\* resumption after the upload read and its end, so no two are inside a
\* Detector invocation at once.
C10_DetectorSerialized ==
    /\ Cardinality({ r \in Requests :
            pc[r] \in {"open", "read", "predict", "record", "finish"} }) <= 1
    /\ Cardinality({ r \in Requests : pc[r] = "predict" }) <= 1
    /\ \A r \in Requests :
            pc[r] \in {"open", "read", "predict", "record", "finish"} => running = r

C10_Witness ==
    \E r1, r2 \in Requests :
        /\ r1 # r2
        /\ pc[r1] = "predict"
        /\ frame_count[r1] = 1
        /\ pc[r2] = "await_read"

====
